---------------------------- MODULE Spec2Model ----------------------------
(***************************************************************************)
(* The plugin loader of pkg/plugins/manager/loader/loader.go: Load drives  *)
(* a batch of discovered manifests through duplicate stripping, signature  *)
(* classification, dependency wiring, signature validation,                *)
(* initialization and registration; Unload stops, unregisters and removes  *)
(* one plugin.  The registry, the process manager, the storage manager,    *)
(* the signature validator and the initializer are collaborators whose     *)
(* code is outside loader.go; they are modelled at their interface.        *)
(***************************************************************************)
EXTENDS Naturals, Sequences, FiniteSets, Bags, TLC

VARIABLES
    registry,   \* pluginRegistry: the set of registered plugins
    running,    \* processManager: IDs whose process is started
    storage,    \* pluginStorage: IDs with a storage entry
    errs,       \* Loader.errs: plugin ID -> signature status of the error, or NoErr
    lpc,        \* position of the Load call in flight
    lclass,     \* Load's class argument
    lfound,     \* foundPlugins as built from the manifests (before stripDuplicates)
    lskipped,   \* the paths whose manifest readPluginJSON could not read
    lsnap,      \* registeredPlugins: the IDs read from the registry
    loaded,     \* loadedPlugins: directory -> plugin
    ltodo,      \* directories the validation loop has not visited yet
    verified,   \* verifiedPlugins, in append order
    li,         \* index of the initialize loop / the load loop
    llog,       \* collaborator calls made by the Load call in flight, in order
    lret,       \* what Load returned
    upc,        \* position of the Unload call in flight
    uid,        \* Unload's pluginID argument
    uplugin,    \* the plugin Unload read from the registry
    ulog,       \* collaborator calls made by the Unload call in flight, in order
    uret,       \* what Unload returned
    epc,        \* position of the PluginErrors call in flight
    navIncludes, \* setDefaultNavURL: p.Includes
    navi,       \* setDefaultNavURL: index of the include the loop visits next
    navURL      \* setDefaultNavURL: p.DefaultNavURL

gvars == <<registry, running, storage, errs>>
lvars == <<lpc, lclass, lfound, lskipped, lsnap, loaded, ltodo, verified, li, llog, lret>>
uvars == <<upc, uid, uplugin, ulog, uret>>
evars == <<epc>>
nvars == <<navIncludes, navi, navURL>>
vars == <<registry, running, storage, errs,
          lpc, lclass, lfound, lskipped, lsnap, loaded, ltodo, verified, li, llog, lret,
          upc, uid, uplugin, ulog, uret, epc,
          navIncludes, navi, navURL>>

---------------------------------------------------------------------------
(* The disk: plugin directories (absolute paths as segment sequences) and  *)
(* the manifest each holds: /a, /a/b, /a/b/c nested and /d beside them.    *)
(* /a/b/c carries the same plugin ID as /a, and /d the same as /a/b.  No   *)
(* manifest lies in the root directory itself.                             *)

DirA == <<"a">>
DirB == <<"a", "b">>
DirC == <<"a", "b", "c">>
DirD == <<"d">>

Dirs == {DirA, DirB, DirC, DirD}

\* Directories whose manifest cannot be read: /e has an empty ID, /f a type
\* that is not a plugin type, /g a manifest file that is not a .json file.
DirE == <<"e">>
DirF == <<"f">>
DirG == <<"g">>

BadDirs == {DirE, DirF, DirG}
AllDirs == Dirs \cup BadDirs

NoDir == <<"<nil>">>

Manifest(d) ==
    CASE d = DirA -> [ID |-> "p1", Type |-> "app"]
      [] d = DirB -> [ID |-> "p2", Type |-> "panel"]
      [] d = DirC -> [ID |-> "p1", Type |-> "datasource"]
      [] d = DirE -> [ID |-> "", Type |-> "panel"]
      [] d = DirF -> [ID |-> "p1", Type |-> "widget"]
      [] d = DirG -> [ID |-> "p2", Type |-> "panel"]
      [] OTHER    -> [ID |-> "p2", Type |-> "renderer"]

\* The extension of the manifest path the finder reports for directory d.
PathExt(d) == IF d = DirG THEN ".txt" ELSE ".json"

IDs == {Manifest(d).ID : d \in Dirs}

Classes == {"core", "external"}

\* What signature.Calculate can find for the bundle in directory d: intact,
\* or damaged in the way particular to that bundle; "<error>" is Calculate
\* (or createPluginBase) failing, which drops the plugin from the batch.
SigStatuses(d) ==
    CASE d = DirA    -> {"valid", "modified"}
      [] d = DirD    -> {"valid"}
      [] d = DirB    -> {"valid", "invalid"}
      [] OTHER       -> {"valid", "invalid", "<error>"}

\* signature.Calculate's outcomes for the directories of keep.
SigOutcomes(keep) ==
    {sigs \in [keep -> {"valid", "invalid", "modified", "<error>"}] :
        \A d \in keep : sigs[d] \in SigStatuses(d)}

\* Whether module.js is in directory d.
HasModule(d) == d # DirB

NoErr == "<none>"

\* The largest number of manifests one Load call discovers.
MaxBatch == 3

\* The same, for a Load call that runs concurrently with an Unload call.
MaxConcBatch == 1

---------------------------------------------------------------------------
(* Pure parts of loadPlugins.                                              *)

ValidTypes == {"app", "panel", "datasource", "renderer"}

\* validatePluginJSON: an empty ID or an unknown type is an error.
validatePluginJSON(data) == data.ID # "" /\ data.Type \in ValidTypes

\* strings.EqualFold(filepath.Ext(path), ".json")
IsJSONExt(ext) == ext \in {".json", ".JSON", ".Json"}

\* readPluginJSON: whether the manifest of directory d is read without an
\* error: the path has the .json extension and the decoded data validates.
readPluginJSON(d) == IsJSONExt(PathExt(d)) /\ validatePluginJSON(Manifest(d))

\* loadPlugins that gives up the whole batch at the first unreadable manifest.
readFoundOrNothing(paths) ==
    IF \A p \in paths : readPluginJSON(p)
    THEN [d \in paths |-> Manifest(d)]
    ELSE [d \in {} |-> Manifest(d)]

\* loadPlugins, first loop: directory -> manifest for every path whose
\* manifest reads and validates (one path per directory, so the duplicate
\* directory test of the loop never fires on these inputs).
readFound(paths) ==
    [d \in {p \in paths : readPluginJSON(p)} |-> Manifest(d)]

\* stripDuplicates that strips nothing.
stripNothing(f, existingPlugins) == f

\* foundPlugins.stripDuplicates: drops every entry whose ID is in
\* existingPlugins; pluginsByID is filled and never read.
stripDuplicates(f, existingPlugins) ==
    [d \in {k \in DOMAIN f : f[k].ID \notin existingPlugins} |-> f[d]]

BaseURLOf(class, d) == <<"base", class>> \o d

\* createPluginBase plus the signature fields createPluginsForLoading sets.
createPlugin(pluginJSON, class, d, sig) ==
    [ID |-> pluginJSON.ID, Type |-> pluginJSON.Type, Class |-> class,
     PluginDir |-> d, BaseURL |-> BaseURLOf(class, d), Signature |-> sig,
     Parent |-> NoDir, Children |-> EmptyBag, IncludedInAppID |-> "",
     SignatureError |-> NoErr]

\* createPluginsForLoading: sigs gives signature.Calculate's outcome per
\* directory; a directory outside DOMAIN sigs is one whose plugin base or
\* signature could not be computed, and is skipped.
createPluginsForLoading(class, f, sigs) ==
    [d \in {k \in DOMAIN sigs : sigs[k] # "<error>"} |->
        createPlugin(f[d], class, d, sigs[d])]

\* strings.Split(dir, "/") without its last element, joined back step by
\* step: the paths the wiring loop probes, in order, root first.
AncestorPaths(d) ==
    [k \in 1..(IF Len(d) = 0 THEN 1 ELSE Len(d)) |-> SubSeq(d, 1, k - 1)]

\* The inner loop of the wiring: the first probed path that is a key of
\* loadedPlugins, or NoDir.
FindParent(d, L) ==
    LET hits == {k \in DOMAIN AncestorPaths(d) : AncestorPaths(d)[k] \in DOMAIN L}
    IN  IF hits = {} THEN NoDir
        ELSE AncestorPaths(d)[CHOOSE k \in hits : \A j \in hits : k <= j]

\* One iteration of the wiring loop for plugin d.
WirePlugin(L, d) ==
    LET par == FindParent(d, L) IN
    IF par = NoDir THEN L
    ELSE LET L1 == [L EXCEPT ![d].Parent = par]
         IN  [L1 EXCEPT ![par].Children = @ (+) SetToBag({d})]

RECURSIVE WireAll(_, _)
WireAll(L, todo) ==
    IF todo = {} THEN L
    ELSE LET d == CHOOSE x \in todo : TRUE
         IN  WireAll(WirePlugin(L, d), todo \ {d})

\* signature.Validator.Validate: NoErr, or the status the error carries.
Validate(p) == IF p.Signature = "valid" THEN NoErr ELSE p.Signature

\* plugins.SignatureError.AsErrorCode
AsErrorCode(status) ==
    CASE status = "invalid"  -> "signatureInvalid"
      [] status = "modified" -> "signatureModified"
      [] OTHER               -> "signatureMissing"

\* Loader.PluginErrors
PluginErrors ==
    {[PluginID |-> id, ErrorCode |-> AsErrorCode(errs[id])] :
        id \in {k \in IDs : errs[k] # NoErr}}

IsApp(p) == p.Type = "app"
IsRenderer(p) == p.Type = "renderer"
IsCorePlugin(p) == p.Class = "core"
IsExternalPlugin(p) == p.Class = "external"

\* configureAppChildPlugin that sets the app marker and keeps the child's
\* own base URL.
configureAppChildMarkerOnly(L, par, child) ==
    IF ~IsApp(L[par]) THEN L
    ELSE [L EXCEPT ![child].IncludedInAppID = L[par].ID]

\* configureAppChildPlugin, on the batch map: the child inherits the
\* parent's ID as its app marker and the parent's base URL.
configureAppChildPlugin(L, par, child) ==
    IF ~IsApp(L[par]) THEN L
    ELSE [L EXCEPT ![child].IncludedInAppID = L[par].ID,
                   ![child].BaseURL = L[par].BaseURL]

\* registry.Service: Plugin (lookup), Add (fails on a present ID), Remove.
RegistryIDs == {p.ID : p \in registry}
RegistryPlugin(id) == {p \in registry : p.ID = id}
\* A registry whose Add accepts an ID it already holds.
RegistryAddAny(p) == TRUE
RegistryAddOK(p) == p.ID \notin RegistryIDs
RegEntry(p) == [ID |-> p.ID, PluginDir |-> p.PluginDir, Class |-> p.Class]

---------------------------------------------------------------------------
(* Load                                                                    *)

NoRet == [plugins |-> <<>>, err |-> "<pending>"]
NoPlugin == [ID |-> "", PluginDir |-> NoDir, Class |-> ""]

LogEntry(op, d, res) == [op |-> op, dir |-> d, res |-> res]

LoaderInit ==
    /\ registry = {}
    /\ running = {}
    /\ storage = {}
    /\ errs = [id \in IDs |-> NoErr]
    /\ lpc = "idle"
    /\ lclass = ""
    /\ lfound = {}
    /\ lskipped = {}
    /\ lsnap = {}
    /\ loaded = << >>
    /\ ltodo = {}
    /\ verified = << >>
    /\ li = 0
    /\ llog = << >>
    /\ lret = NoRet
    /\ upc = "idle"
    /\ uid = ""
    /\ uplugin = NoPlugin
    /\ ulog = << >>
    /\ uret = "<pending>"
    /\ epc = "idle"

\* A new Loader; no setDefaultNavURL call is looked at on its own.
Init ==
    /\ LoaderInit
    /\ navIncludes = << >>
    /\ navi = 0
    /\ navURL = << >>

\* Load whose Finder fails: the error is returned before anything is read.
LoadFindError ==
    /\ lpc = "idle"
    /\ lpc' = "returned"
    /\ lret' = [plugins |-> << >>, err |-> "ErrFind"]
    /\ UNCHANGED <<lclass, lfound, lskipped, lsnap, loaded, ltodo, verified, li, llog>>
    /\ UNCHANGED gvars
    /\ UNCHANGED uvars
    /\ UNCHANGED evars
    /\ UNCHANGED nvars

\* Load up to the end of the wiring loop (loader.go 82-173), for a batch of
\* at most maxBatch manifests: read the manifests, read the registry,
\* strip, create and classify, wire.
LoadDiscoverUpTo(maxBatch) ==
    /\ lpc = "idle"
    /\ \E class \in Classes, paths \in SUBSET AllDirs :
         /\ Cardinality(paths) <= maxBatch
         /\ \E sigs \in SigOutcomes(DOMAIN stripDuplicates(readFound(paths), RegistryIDs)) :
              LET s == stripDuplicates(readFound(paths), RegistryIDs)
                  L0 == createPluginsForLoading(class, s, sigs)
                  L == WireAll(L0, DOMAIN L0)
              IN  /\ lclass' = class
                  /\ lfound' = DOMAIN readFound(paths)
                  /\ lskipped' = paths \ DOMAIN readFound(paths)
                  /\ lsnap' = RegistryIDs
                  /\ loaded' = L
                  /\ ltodo' = DOMAIN L
                  /\ verified' = << >>
                  /\ li' = 0
                  /\ llog' = << >>
                  /\ IF DOMAIN L = {}
                     THEN /\ lpc' = "returned"
                          /\ lret' = [plugins |-> << >>, err |-> "nil"]
                     ELSE /\ lpc' = "validate"
                          /\ lret' = NoRet
    /\ UNCHANGED gvars
    /\ UNCHANGED uvars
    /\ UNCHANGED evars
    /\ UNCHANGED nvars

\* The same for a batch of at most MaxBatch manifests.
LoadDiscover == LoadDiscoverUpTo(MaxBatch)

\* What a write of l.errs does to a PluginErrors call: the Loader has no
\* lock, so a write made while the call iterates over the map is a data
\* race with that iteration.
ErrsWritten(pc) == IF pc = "reading" THEN "raced" ELSE pc

\* Where loadPlugins goes once the validation loop has visited every
\* plugin: the initialize loop, or straight to the return when nothing
\* was verified.
AfterValidation(todo, ver) ==
    IF todo # {} THEN [pc |-> "validate", ret |-> NoRet]
    ELSE IF ver = << >> THEN [pc |-> "returned", ret |-> [plugins |-> << >>, err |-> "nil"]]
    ELSE [pc |-> "init", ret |-> NoRet]

\* A validation loop whose failure branch lacks the continue: the rejected
\* plugin is recorded in the error map and still appended to verifiedPlugins.
LoadValidateRejectNoContinue ==
    /\ lpc = "validate"
    /\ \E d \in ltodo :
         LET e == Validate(loaded[d])
             nxt == AfterValidation(ltodo \ {d}, Append(verified, d))
         IN  /\ e # NoErr
             /\ loaded' = [loaded EXCEPT ![d].SignatureError = e]
             /\ errs' = [errs EXCEPT ![loaded[d].ID] = e]
             /\ ltodo' = ltodo \ {d}
             /\ verified' = Append(verified, d)
             /\ llog' = Append(llog, LogEntry("Validate", d, "fail"))
             /\ lpc' = nxt.pc
             /\ lret' = nxt.ret
             /\ li' = IF nxt.pc = "init" THEN 1 ELSE li
    /\ UNCHANGED <<lclass, lfound, lskipped, lsnap>>
    /\ UNCHANGED <<registry, running, storage>>
    /\ UNCHANGED uvars
    /\ epc' = ErrsWritten(epc)
    /\ UNCHANGED nvars

\* One iteration of the validation loop whose Validate fails (175-186).
LoadValidateReject ==
    /\ lpc = "validate"
    /\ \E d \in ltodo :
         LET e == Validate(loaded[d])
             nxt == AfterValidation(ltodo \ {d}, verified)
         IN  /\ e # NoErr
             /\ loaded' = [loaded EXCEPT ![d].SignatureError = e]
             /\ errs' = [errs EXCEPT ![loaded[d].ID] = e]
             /\ ltodo' = ltodo \ {d}
             /\ llog' = Append(llog, LogEntry("Validate", d, "fail"))
             /\ lpc' = nxt.pc
             /\ lret' = nxt.ret
             /\ li' = IF nxt.pc = "init" THEN 1 ELSE li
    /\ UNCHANGED <<lclass, lfound, lskipped, lsnap, verified>>
    /\ UNCHANGED <<registry, running, storage>>
    /\ UNCHANGED uvars
    /\ epc' = ErrsWritten(epc)
    /\ UNCHANGED nvars

\* The outcomes of fs.Exists(module.js) for a plugin: not called for
\* renderer and core plugins.
ExistsOutcomes(p) ==
    IF ~IsRenderer(p) /\ ~IsCorePlugin(p)
    THEN {IF HasModule(p.PluginDir) THEN "present" ELSE "missing", "error"}
    ELSE {"skipped"}

\* One iteration of the validation loop whose Validate succeeds (188-213).
LoadValidateAccept ==
    /\ lpc = "validate"
    /\ \E d \in ltodo :
         /\ Validate(loaded[d]) = NoErr
         /\ errs' = [errs EXCEPT ![loaded[d].ID] = NoErr]
         /\ \E ex \in ExistsOutcomes(loaded[d]) :
              LET log0 == Append(llog, LogEntry("Validate", d, "ok"))
                  log1 == Append(log0, LogEntry("DeleteErr", d,
                              IF errs[loaded[d].ID] # NoErr THEN "removed" ELSE "absent"))
                  log2 == IF ex = "skipped" THEN log1
                          ELSE Append(log1, LogEntry("Exists", d, ex))
                  par == loaded[d].Parent
                  nxt == AfterValidation(ltodo \ {d}, Append(verified, d))
              IN  /\ llog' = log2
                  /\ ltodo' = ltodo \ {d}
                  /\ IF ex = "error"
                     THEN /\ lpc' = "returned"
                          /\ lret' = [plugins |-> << >>, err |-> "ErrExists"]
                          /\ UNCHANGED <<loaded, verified, li>>
                     ELSE /\ loaded' = IF par # NoDir
                                       THEN configureAppChildPlugin(loaded, par, d)
                                       ELSE loaded
                          /\ verified' = Append(verified, d)
                          /\ lpc' = nxt.pc
                          /\ lret' = nxt.ret
                          /\ li' = IF nxt.pc = "init" THEN 1 ELSE li
    /\ UNCHANGED <<lclass, lfound, lskipped, lsnap>>
    /\ UNCHANGED <<registry, running, storage>>
    /\ UNCHANGED uvars
    /\ epc' = ErrsWritten(epc)
    /\ UNCHANGED nvars

\* loadPlugins that logs the Initialize error and goes on.
InitializeErrorIgnored(ver, i) ==
    IF i < Len(ver) THEN [pc |-> "init", i |-> i + 1, ret |-> NoRet]
    ELSE [pc |-> "add", i |-> 1, ret |-> NoRet]

\* loadPlugins that leaves the initialize loop at the error and goes on to
\* the load loop.
InitializeFailedBreak(ver, i) == [pc |-> "add", i |-> 1, ret |-> NoRet]

\* What loadPlugins does when Initialize returns an error: return it, with
\* no plugin list.
InitializeFailed(ver, i) ==
    [pc |-> "returned", i |-> i, ret |-> [plugins |-> << >>, err |-> "ErrInitialize"]]

\* What loadPlugins does when Initialize succeeds: the next plugin, or the
\* load loop after the last one.
InitializeSucceeded(ver, i) ==
    IF i < Len(ver) THEN [pc |-> "init", i |-> i + 1, ret |-> NoRet]
    ELSE [pc |-> "add", i |-> 1, ret |-> NoRet]

\* One iteration of the initialize loop (216-226).
LoadInitialize ==
    /\ lpc = "init"
    /\ \E ok \in BOOLEAN :
         LET nxt == IF ok THEN InitializeSucceeded(verified, li)
                    ELSE InitializeFailed(verified, li)
         IN  /\ llog' = Append(llog, LogEntry("Initialize", verified[li],
                                              IF ok THEN "ok" ELSE "fail"))
             /\ lpc' = nxt.pc
             /\ li' = nxt.i
             /\ lret' = nxt.ret
    /\ UNCHANGED <<lclass, lfound, lskipped, lsnap, loaded, ltodo, verified>>
    /\ UNCHANGED gvars
    /\ UNCHANGED uvars
    /\ UNCHANGED evars
    /\ UNCHANGED nvars

\* A load loop that ends at the first plugin it handled.
AfterLoadBreak(ver, i) ==
    [pc |-> "returned", i |-> i, ret |-> [plugins |-> ver, err |-> "nil"]]

\* The load loop (228-234) after l.load returned for verified[i], with or
\* without an error: the error is logged, the loop goes on, and after the
\* last plugin loadPlugins returns verifiedPlugins and no error.
AfterLoad(ver, i) ==
    IF i < Len(ver) THEN [pc |-> "add", i |-> i + 1, ret |-> NoRet]
    ELSE [pc |-> "returned", i |-> i, ret |-> [plugins |-> ver, err |-> "nil"]]

\* Loader.load, pluginRegistry.Add (253-256).
LoadAdd ==
    /\ lpc = "add"
    /\ LET p == loaded[verified[li]]
           nxt == AfterLoad(verified, li)
       IN  IF RegistryAddOK(p)
           THEN /\ registry' = registry \cup {RegEntry(p)}
                /\ llog' = Append(llog, LogEntry("Add", verified[li], "ok"))
                /\ lpc' = IF IsExternalPlugin(p) THEN "register" ELSE "start"
                /\ UNCHANGED <<li, lret>>
           ELSE /\ llog' = Append(llog, LogEntry("Add", verified[li], "fail"))
                /\ lpc' = nxt.pc
                /\ li' = nxt.i
                /\ lret' = nxt.ret
                /\ UNCHANGED registry
    /\ UNCHANGED <<lclass, lfound, lskipped, lsnap, loaded, ltodo, verified>>
    /\ UNCHANGED <<running, storage, errs>>
    /\ UNCHANGED uvars
    /\ UNCHANGED evars
    /\ UNCHANGED nvars

\* Loader.load that goes on to start the process whatever
\* pluginStorage.Register returned.
LoadStorageRegisterErrorIgnored ==
    /\ lpc = "register"
    /\ \E ok \in BOOLEAN :
         LET p == loaded[verified[li]]
         IN  /\ llog' = Append(llog, LogEntry("Register", verified[li],
                                              IF ok THEN "ok" ELSE "fail"))
             /\ storage' = IF ok THEN storage \cup {p.ID} ELSE storage
             /\ lpc' = "start"
             /\ UNCHANGED <<li, lret>>
    /\ UNCHANGED <<lclass, lfound, lskipped, lsnap, loaded, ltodo, verified>>
    /\ UNCHANGED <<registry, running, errs>>
    /\ UNCHANGED uvars
    /\ UNCHANGED evars
    /\ UNCHANGED nvars

\* Loader.load, pluginStorage.Register for an external plugin (262-266).
LoadStorageRegister ==
    /\ lpc = "register"
    /\ \E ok \in BOOLEAN :
         LET p == loaded[verified[li]]
             nxt == AfterLoad(verified, li)
         IN  /\ llog' = Append(llog, LogEntry("Register", verified[li],
                                              IF ok THEN "ok" ELSE "fail"))
             /\ IF ok
                THEN /\ storage' = storage \cup {p.ID}
                     /\ lpc' = "start"
                     /\ UNCHANGED <<li, lret>>
                ELSE /\ lpc' = nxt.pc
                     /\ li' = nxt.i
                     /\ lret' = nxt.ret
                     /\ UNCHANGED storage
    /\ UNCHANGED <<lclass, lfound, lskipped, lsnap, loaded, ltodo, verified>>
    /\ UNCHANGED <<registry, running, errs>>
    /\ UNCHANGED uvars
    /\ UNCHANGED evars
    /\ UNCHANGED nvars

\* Loader.load that takes the plugin out of the registry again when its
\* process does not start.
LoadStartRollsBack ==
    /\ lpc = "start"
    /\ \E ok \in BOOLEAN :
         LET p == loaded[verified[li]]
             nxt == AfterLoad(verified, li)
         IN  /\ llog' = Append(llog, LogEntry("Start", verified[li],
                                              IF ok THEN "ok" ELSE "fail"))
             /\ running' = IF ok THEN running \cup {p.ID} ELSE running
             /\ registry' = IF ok THEN registry ELSE registry \ {RegEntry(p)}
             /\ lpc' = nxt.pc
             /\ li' = nxt.i
             /\ lret' = nxt.ret
    /\ UNCHANGED <<lclass, lfound, lskipped, lsnap, loaded, ltodo, verified>>
    /\ UNCHANGED <<storage, errs>>
    /\ UNCHANGED uvars
    /\ UNCHANGED evars
    /\ UNCHANGED nvars

\* Loader.load, processManager.Start (268).
LoadStart ==
    /\ lpc = "start"
    /\ \E ok \in BOOLEAN :
         LET p == loaded[verified[li]]
             nxt == AfterLoad(verified, li)
         IN  /\ llog' = Append(llog, LogEntry("Start", verified[li],
                                              IF ok THEN "ok" ELSE "fail"))
             /\ running' = IF ok THEN running \cup {p.ID} ELSE running
             /\ lpc' = nxt.pc
             /\ li' = nxt.i
             /\ lret' = nxt.ret
    /\ UNCHANGED <<lclass, lfound, lskipped, lsnap, loaded, ltodo, verified>>
    /\ UNCHANGED <<registry, storage, errs>>
    /\ UNCHANGED uvars
    /\ UNCHANGED evars
    /\ UNCHANGED nvars

\* The caller takes Load's result; the loader is ready for the next call.
LoadReturn ==
    /\ lpc = "returned"
    /\ lpc' = "idle"
    /\ lclass' = ""
    /\ lfound' = {}
    /\ lskipped' = {}
    /\ lsnap' = {}
    /\ loaded' = << >>
    /\ ltodo' = {}
    /\ verified' = << >>
    /\ li' = 0
    /\ llog' = << >>
    /\ lret' = NoRet
    /\ UNCHANGED gvars
    /\ UNCHANGED uvars
    /\ UNCHANGED evars
    /\ UNCHANGED nvars

---------------------------------------------------------------------------
(* Unload                                                                  *)

\* Unload without the test for a removable class.
UnloadCheckExistsOnly(found) ==
    IF found = {} THEN "ErrPluginNotInstalled" ELSE "nil"

\* The two preconditions of Loader.Unload (237-245): the error returned, or
\* "nil" when unload may proceed.
UnloadCheck(found) ==
    IF found = {} THEN "ErrPluginNotInstalled"
    ELSE IF \E p \in found : ~IsExternalPlugin(p) THEN "ErrUninstallCorePlugin"
    ELSE "nil"

\* Loader.Unload up to the call of unload: the registry lookup and the two
\* preconditions.
Unload ==
    /\ upc = "idle"
    /\ \E id \in IDs :
         LET found == RegistryPlugin(id)
             e == UnloadCheck(found)
         IN  /\ uid' = id
             /\ ulog' = << >>
             /\ IF e # "nil"
                THEN /\ upc' = "returned"
                     /\ uret' = e
                     /\ uplugin' = NoPlugin
                ELSE /\ upc' = "stop"
                     /\ uret' = "<pending>"
                     /\ uplugin' = CHOOSE p \in found : TRUE
    /\ UNCHANGED gvars
    /\ UNCHANGED lvars
    /\ UNCHANGED evars
    /\ UNCHANGED nvars

\* unload with the storage removed before the registry entry.
UnloadNextStorageFirst(step) ==
    CASE step = "stop"          -> "storageRemove"
      [] step = "storageRemove" -> "remove"
      [] OTHER                  -> "returned"

\* The step of Loader.unload that follows step `step` when it succeeded;
\* a failed step returns its error (271-288).
UnloadNext(step) ==
    CASE step = "stop"   -> "remove"
      [] step = "remove" -> "storageRemove"
      [] OTHER           -> "returned"

\* Loader.unload, processManager.Stop (275-277).
UnloadStop ==
    /\ upc = "stop"
    /\ \E ok \in BOOLEAN :
         /\ ulog' = Append(ulog, LogEntry("Stop", uplugin.PluginDir, IF ok THEN "ok" ELSE "fail"))
         /\ running' = IF ok THEN running \ {uplugin.ID} ELSE running
         /\ upc' = IF ok THEN UnloadNext("stop") ELSE "returned"
         /\ uret' = IF ok THEN uret ELSE "ErrStop"
    /\ UNCHANGED <<uid, uplugin>>
    /\ UNCHANGED <<registry, storage, errs>>
    /\ UNCHANGED lvars
    /\ UNCHANGED evars
    /\ UNCHANGED nvars

\* Loader.unload, pluginRegistry.Remove (279-281): fails when the ID is not
\* registered.
UnloadRemove ==
    /\ upc = "remove"
    /\ LET ok == RegistryPlugin(uplugin.ID) # {}
       IN  /\ ulog' = Append(ulog, LogEntry("Remove", uplugin.PluginDir, IF ok THEN "ok" ELSE "fail"))
           /\ registry' = registry \ RegistryPlugin(uplugin.ID)
           /\ upc' = IF ok THEN UnloadNext("remove") ELSE "returned"
           /\ uret' = IF ok THEN uret ELSE "ErrRemove"
    /\ UNCHANGED <<uid, uplugin>>
    /\ UNCHANGED <<running, storage, errs>>
    /\ UNCHANGED lvars
    /\ UNCHANGED evars
    /\ UNCHANGED nvars

\* unload that drops the storage error.
StorageRemoveIgnored(ok) == "nil"

\* What Loader.unload returns after pluginStorage.Remove (284-287).
StorageRemoveResult(ok) == IF ok THEN "nil" ELSE "ErrStorageRemove"

\* Loader.unload, pluginStorage.Remove (284-287).
UnloadStorageRemove ==
    /\ upc = "storageRemove"
    /\ \E ok \in BOOLEAN :
         /\ ulog' = Append(ulog, LogEntry("StorageRemove", uplugin.PluginDir, IF ok THEN "ok" ELSE "fail"))
         /\ storage' = IF ok THEN storage \ {uplugin.ID} ELSE storage
         /\ upc' = UnloadNext("storageRemove")
         /\ uret' = StorageRemoveResult(ok)
    /\ UNCHANGED <<uid, uplugin>>
    /\ UNCHANGED <<registry, running, errs>>
    /\ UNCHANGED lvars
    /\ UNCHANGED evars
    /\ UNCHANGED nvars

\* The caller takes Unload's result.
UnloadReturn ==
    /\ upc = "returned"
    /\ upc' = "idle"
    /\ uid' = ""
    /\ uplugin' = NoPlugin
    /\ ulog' = << >>
    /\ uret' = "<pending>"
    /\ UNCHANGED gvars
    /\ UNCHANGED lvars
    /\ UNCHANGED evars
    /\ UNCHANGED nvars

---------------------------------------------------------------------------
(* PluginErrors                                                            *)

\* Loader.PluginErrors starts to iterate over l.errs (427-429).
PluginErrorsBegin ==
    /\ epc = "idle"
    /\ epc' = "reading"
    /\ UNCHANGED gvars
    /\ UNCHANGED lvars
    /\ UNCHANGED uvars
    /\ UNCHANGED nvars

\* How an iteration over l.errs ends: it returns the list; after a write
\* raced with it, it returns some list or the runtime ends the process
\* ("concurrent map iteration and map write").
PluginErrorsOutcomes(pc) == IF pc = "raced" THEN {"idle", "fatal"} ELSE {"idle"}

\* Loader.PluginErrors ends its iteration and returns (429-436).
PluginErrorsEnd ==
    /\ epc \in {"reading", "raced"}
    /\ epc' \in PluginErrorsOutcomes(epc)
    /\ UNCHANGED gvars
    /\ UNCHANGED lvars
    /\ UNCHANGED uvars
    /\ UNCHANGED nvars

---------------------------------------------------------------------------
(* Calls made one after the other: a call starts only when no other call   *)
(* is in flight.                                                           *)

NoUnloadInFlight == upc = "idle"
NoLoadInFlight == lpc = "idle"
NoPluginErrorsInFlight == epc = "idle"

Next ==
    \/ (NoUnloadInFlight /\ NoPluginErrorsInFlight /\ LoadFindError)
    \/ (NoUnloadInFlight /\ NoPluginErrorsInFlight /\ LoadDiscover)
    \/ LoadValidateReject
    \/ LoadValidateAccept
    \/ LoadInitialize
    \/ LoadAdd
    \/ LoadStorageRegister
    \/ LoadStart
    \/ LoadReturn
    \/ (NoLoadInFlight /\ NoPluginErrorsInFlight /\ Unload)
    \/ UnloadStop
    \/ UnloadRemove
    \/ UnloadStorageRemove
    \/ UnloadReturn
    \/ (NoLoadInFlight /\ NoUnloadInFlight /\ PluginErrorsBegin)
    \/ PluginErrorsEnd

Spec == Init /\ [][Next]_vars

---------------------------------------------------------------------------
(* PluginErrors called from another goroutine than Load: the Loader holds  *)
(* no lock (39-53), so either call may start while the other is in flight. *)
(* Unload calls are made while no other call is in flight.  Nothing runs   *)
(* once the runtime has ended the process.                                 *)

ProcessAlive == epc # "fatal"

NextErrs ==
    \/ (ProcessAlive /\ NoUnloadInFlight /\ LoadFindError)
    \/ (ProcessAlive /\ NoUnloadInFlight /\ LoadDiscover)
    \/ (ProcessAlive /\ LoadValidateReject)
    \/ (ProcessAlive /\ LoadValidateAccept)
    \/ (ProcessAlive /\ LoadInitialize)
    \/ (ProcessAlive /\ LoadAdd)
    \/ (ProcessAlive /\ LoadStorageRegister)
    \/ (ProcessAlive /\ LoadStart)
    \/ (ProcessAlive /\ LoadReturn)
    \/ (NoLoadInFlight /\ NoPluginErrorsInFlight /\ Unload)
    \/ UnloadStop
    \/ UnloadRemove
    \/ UnloadStorageRemove
    \/ UnloadReturn
    \/ (NoUnloadInFlight /\ PluginErrorsBegin)
    \/ PluginErrorsEnd

SpecErrs == Init /\ [][NextErrs]_vars

---------------------------------------------------------------------------
(* Load and Unload called from different goroutines: nothing in the Loader *)
(* orders the steps of one call against the steps of the other, so either  *)
(* call may start, and take any of its steps, while the other is in        *)
(* flight.  PluginErrors calls are made while no other call is in flight.  *)
(* The batches are of at most MaxConcBatch manifests.                      *)

NextConc ==
    \/ (NoPluginErrorsInFlight /\ LoadFindError)
    \/ (NoPluginErrorsInFlight /\ LoadDiscoverUpTo(MaxConcBatch))
    \/ LoadValidateReject
    \/ LoadValidateAccept
    \/ LoadInitialize
    \/ LoadAdd
    \/ LoadStorageRegister
    \/ LoadStart
    \/ LoadReturn
    \/ (NoPluginErrorsInFlight /\ Unload)
    \/ UnloadStop
    \/ UnloadRemove
    \/ UnloadStorageRemove
    \/ UnloadReturn
    \/ (NoLoadInFlight /\ NoUnloadInFlight /\ PluginErrorsBegin)
    \/ PluginErrorsEnd

SpecConc == Init /\ [][NextConc]_vars

---------------------------------------------------------------------------
(* setDefaultNavURL (382-406), on its own: an app plugin with a list of    *)
(* includes, the loop visiting one include per step.                       *)

\* The largest number of includes of the app.
MaxIncludes == 3

NavPluginID == "p1"

\* The includes an app manifest may list.
IncludeKinds ==
    {[Type |-> "page", DefaultNav |-> TRUE, Name |-> "Home", Slug |-> "", UID |-> ""],
     [Type |-> "page", DefaultNav |-> TRUE, Name |-> "Stats", Slug |-> "stats-page", UID |-> ""],
     [Type |-> "page", DefaultNav |-> FALSE, Name |-> "About", Slug |-> "", UID |-> ""],
     [Type |-> "dashboard", DefaultNav |-> TRUE, Name |-> "Overview", Slug |-> "", UID |-> "u1"],
     [Type |-> "dashboard", DefaultNav |-> TRUE, Name |-> "Legacy", Slug |-> "", UID |-> ""],
     [Type |-> "dashboard", DefaultNav |-> FALSE, Name |-> "Extra", Slug |-> "", UID |-> "u2"],
     [Type |-> "panel", DefaultNav |-> TRUE, Name |-> "Gauge", Slug |-> "", UID |-> ""]}

IncludeLists == UNION {[1..n -> IncludeKinds] : n \in 0..MaxIncludes}

\* slugify.Slugify on the names of IncludeKinds.
Slugify(name) ==
    CASE name = "Home"     -> "home"
      [] name = "Stats"    -> "stats"
      [] name = "About"    -> "about"
      [] name = "Overview" -> "overview"
      [] name = "Legacy"   -> "legacy"
      [] name = "Extra"    -> "extra"
      [] OTHER             -> "gauge"

\* The Slug of an include after lines 385-387.
SlugOf(include) == IF include.Slug = "" THEN Slugify(include.Name) ELSE include.Slug

\* path.Join("/plugins/", p.ID, "/page/", slug), as path segments.
PageURL(id, slug) == <<"plugins", id, "page", slug>>

\* plugins.Includes.DashboardURLPath: empty without a UID.
DashboardURLPath(include) ==
    IF include.Type # "dashboard" \/ include.UID = "" THEN << >>
    ELSE <<"d", include.UID>>

\* One iteration of the loop of setDefaultNavURL: p.DefaultNavURL after the
\* iteration for `include`, given its value `url` before.
NavURLAfter(url, include) ==
    IF ~include.DefaultNav THEN url
    ELSE IF include.Type = "page" THEN PageURL(NavPluginID, SlugOf(include))
    ELSE IF include.Type = "dashboard"
         THEN IF DashboardURLPath(include) = << >> THEN url
              ELSE DashboardURLPath(include)
    ELSE url

\* An app plugin as createPluginBase leaves it: any list of includes, no
\* default navigation URL.
InitNav ==
    /\ LoaderInit
    /\ navIncludes \in IncludeLists
    /\ navi = 1
    /\ navURL = << >>

\* One iteration of the loop (384-405).
NavStep ==
    /\ navi \in DOMAIN navIncludes
    /\ navIncludes' = [navIncludes EXCEPT ![navi].Slug = SlugOf(navIncludes[navi])]
    /\ navURL' = NavURLAfter(navURL, navIncludes[navi])
    /\ navi' = navi + 1
    /\ UNCHANGED gvars
    /\ UNCHANGED lvars
    /\ UNCHANGED uvars
    /\ UNCHANGED evars

NextNav == NavStep

SpecNav == InitNav /\ [][NextNav]_vars

(***************************************************************************)
(* The wiring loop of loadPlugins looked at on its own, over batches that  *)
(* may hold a plugin whose directory is the root of the file system.       *)
(***************************************************************************)
\* filepath.Dir of "/plugin.json": strings.Split gives two empty elements,
\* so the only path the wiring probes is the root itself.
DirRoot == << >>

WireDirs == Dirs \cup {DirRoot}

\* loadPlugins up to the wiring loop: every manifest of the batch was read
\* and every plugin created; the registry is empty.
InitWire ==
    \E batch \in SUBSET WireDirs, class \in Classes :
        /\ Cardinality(batch) <= MaxBatch
        /\ registry = {}
        /\ running = {}
        /\ storage = {}
        /\ errs = [id \in IDs |-> NoErr]
        /\ lpc = IF batch = {} THEN "wired" ELSE "wire"
        /\ lclass = class
        /\ lfound = batch
        /\ lskipped = {}
        /\ lsnap = {}
        /\ loaded = createPluginsForLoading(class,
                        [d \in batch |-> Manifest(d)],
                        [d \in batch |-> "valid"])
        /\ ltodo = batch
        /\ verified = << >>
        /\ li = 0
        /\ llog = << >>
        /\ lret = NoRet
        /\ upc = "idle"
        /\ uid = ""
        /\ uplugin = NoPlugin
        /\ ulog = << >>
        /\ uret = "<pending>"
        /\ epc = "idle"
        /\ navIncludes = << >>
        /\ navi = 0
        /\ navURL = << >>

\* One iteration of `for _, plugin := range loadedPlugins`, in map order.
WireStep ==
    /\ lpc = "wire"
    /\ \E d \in ltodo :
        /\ loaded' = WirePlugin(loaded, d)
        /\ ltodo' = ltodo \ {d}
        /\ lpc' = IF ltodo = {d} THEN "wired" ELSE "wire"
    /\ UNCHANGED <<lclass, lfound, lskipped, lsnap, verified, li, llog, lret>>
    /\ UNCHANGED gvars
    /\ UNCHANGED uvars
    /\ UNCHANGED evars
    /\ UNCHANGED nvars

NextWire == WireStep

SpecWire == InitWire /\ [][NextWire]_vars

---------------------------------------------------------------------------
(* Reading the call logs.                                                  *)

Logged(log, op, d, res) == \E i \in DOMAIN log : log[i] = LogEntry(op, d, res)
Invoked(log, op, d) == \E i \in DOMAIN log : log[i].op = op /\ log[i].dir = d
InvokedAny(log, op) == \E i \in DOMAIN log : log[i].op = op
InSeq(x, sq) == \E i \in DOMAIN sq : sq[i] = x

\* The operations that follow a successful validation.
LaterOps == {"Exists", "Initialize", "Add", "Register", "Start"}
RegistrationOps == {"Add", "Register", "Start"}

---------------------------------------------------------------------------
(* C1: after any sequence of Load and Unload calls, whatever fails, the    *)
(* registry never holds two plugins with the same ID.                      *)
C1_RegistryUniqueIDs ==
    \A p \in registry, q \in registry : p.ID = q.ID => p = q

\* A second plugin with a registered ID was offered to the registry.
C1_Witness ==
    \E i \in DOMAIN llog :
        /\ llog[i].op = "Add" /\ llog[i].res = "fail"
        /\ loaded[llog[i].dir].ID \in RegistryIDs

(* C2: a discovered manifest whose ID is in the registry when Load reads   *)
(* it is excluded from the batch -- no plugin is created for it, no        *)
(* collaborator is called for it, it is not returned -- and a Load whose   *)
(* discovered manifests are all registered adds nothing to the registry    *)
(* and returns an empty list.                                              *)
C2_RegisteredExcluded ==
    lpc # "idle" =>
        /\ \A d \in lfound :
              Manifest(d).ID \in lsnap =>
                /\ d \notin DOMAIN loaded
                /\ \A i \in DOMAIN llog : llog[i].dir # d
                /\ ~InSeq(d, lret.plugins)
        /\ (lpc = "returned" /\ lret.err # "ErrFind"
              /\ \A d \in lfound : Manifest(d).ID \in lsnap) =>
                /\ lret = [plugins |-> << >>, err |-> "nil"]
                /\ llog = << >>
                /\ RegistryIDs = lsnap

\* A Load over a non-empty directory set whose plugins are all registered.
C2_Witness ==
    /\ lpc = "returned"
    /\ Cardinality(lfound) >= 2
    /\ \A d \in lfound : Manifest(d).ID \in lsnap

(* C3: the parent wired to a plugin is the plugin of the same batch in the *)
(* nearest (deepest) proper ancestor directory, and a plugin with no       *)
(* ancestor directory in the batch has no parent; for /a, /a/b, /a/b/c     *)
(* discovered together, b's parent is a and c's parent is b.               *)
ProperAncestors(d) == {SubSeq(d, 1, k) : k \in 0..(Len(d) - 1)}

NearestAncestor(d, batch) ==
    LET anc == ProperAncestors(d) \cap batch
    IN  IF anc = {} THEN NoDir
        ELSE CHOOSE a \in anc : \A b \in anc : Len(b) <= Len(a)

C3_NearestAncestorParent ==
    lpc # "idle" =>
        \A d \in DOMAIN loaded :
            loaded[d].Parent = NearestAncestor(d, DOMAIN loaded)

(* C4: when Load returns, a plugin of the batch whose signature validation *)
(* failed is not in the returned list, was never checked for assets,       *)
(* initialized, added, registered in storage or started by the call, and   *)
(* PluginErrors() holds an entry with its ID (the claim adds: and with the *)
(* error code of its signature status).                                    *)
C4_RejectedReported ==
    lpc = "returned" =>
        \A d \in DOMAIN loaded :
            Logged(llog, "Validate", d, "fail") =>
                /\ ~InSeq(d, lret.plugins)
                /\ \A op \in LaterOps : ~Invoked(llog, op, d)
                /\ \E e \in PluginErrors : e.PluginID = loaded[d].ID

(* C5: if a plugin ID has an error-map entry from an earlier Load, then    *)
(* after a later Load call in which validation of a plugin with that ID    *)
(* succeeds, PluginErrors() no longer contains that ID.                    *)
\* The entry the i-th logged delete removed was made by an earlier call:
\* no plugin with that ID was validated before it in this call.
RemovedEarlierEntry(i) ==
    /\ llog[i].op = "DeleteErr" /\ llog[i].res = "removed"
    /\ \A j \in 1..(i - 1) :
          llog[j].op = "Validate" /\ llog[j].dir # llog[i].dir
              => loaded[llog[j].dir].ID # loaded[llog[i].dir].ID

C5_ResolvedErrorCleared ==
    lpc = "returned" =>
        \A i \in DOMAIN llog :
            RemovedEarlierEntry(i) =>
                \A e \in PluginErrors : e.PluginID # loaded[llog[i].dir].ID

\* C5, second half (holds): an entry leaves the error map only in a step
\* that validates a plugin with that ID successfully.
C5_RemovedOnlyByValidation ==
    [][\A id \in IDs :
          (errs[id] # NoErr /\ errs'[id] = NoErr) =>
              \E d \in ltodo : /\ d \notin ltodo'
                               /\ loaded[d].ID = id
                               /\ Validate(loaded[d]) = NoErr]_vars

(* C6: Unload of an ID absent from the registry returns the "not           *)
(* installed" error, Unload of a registered core plugin returns the        *)
(* distinct "cannot remove core plugin" error; in both cases the registry, *)
(* the storage and the process state are unchanged and no collaborator     *)
(* (Stop, registry Remove, storage Remove) is invoked.                     *)
UnloadBegins == upc = "idle" /\ upc' # "idle"

C6_UnloadPreconditions ==
    [][UnloadBegins =>
          LET found == RegistryPlugin(uid')
              refused == /\ upc' = "returned"
                         /\ ulog' = << >>
                         /\ registry' = registry
                         /\ storage' = storage
                         /\ running' = running
          IN  /\ found = {} => (refused /\ uret' = "ErrPluginNotInstalled")
              /\ (found # {} /\ \A p \in found : IsCorePlugin(p)) =>
                    (refused /\ uret' = "ErrUninstallCorePlugin")]_vars

\* Unload of a registered core plugin has returned.
C6_Witness ==
    /\ upc = "returned"
    /\ uret = "ErrUninstallCorePlugin"
    /\ \E p \in registry : p.ID = uid /\ IsCorePlugin(p)

(* C7: in every Unload call the steps run in the order Stop, registry      *)
(* Remove, storage Remove; a failing step ends the call with its error;    *)
(* registry Remove is invoked only after Stop succeeded (after a failed    *)
(* Stop the plugin is still registered and the storage untouched); storage *)
(* Remove is invoked only after registry Remove succeeded, when the call's *)
(* plugin is no longer in the registry.                                    *)
UnloadError(op) ==
    CASE op = "Stop"   -> "ErrStop"
      [] op = "Remove" -> "ErrRemove"
      [] OTHER         -> "ErrStorageRemove"

C7_UnloadOrder ==
    [][(ulog' # ulog /\ ulog' # << >>) =>
          LET e == ulog'[Len(ulog')]
              d == uplugin.PluginDir
          IN  /\ ulog' = Append(ulog, e)
              /\ e.op = "Stop" => ulog = << >>
              /\ e.op = "Remove" => ulog = <<LogEntry("Stop", d, "ok")>>
              /\ e.op = "StorageRemove" =>
                    /\ ulog = <<LogEntry("Stop", d, "ok"), LogEntry("Remove", d, "ok")>>
                    /\ uplugin \notin registry
              /\ e.res = "fail" =>
                    /\ upc' = "returned"
                    /\ uret' = UnloadError(e.op)
              /\ (e.op = "Stop" /\ e.res = "fail") =>
                    /\ uplugin \in registry'
                    /\ registry' = registry
                    /\ storage' = storage]_vars

\* An Unload call that went through all three steps has returned.
C7_Witness ==
    /\ upc = "returned"
    /\ Len(ulog) = 3
    /\ ulog[3].op = "StorageRemove"

(* C8: when Unload of a registered external plugin succeeds at Stop and    *)
(* registry Remove and storage Remove fails, Unload returns the storage    *)
(* error and the registry no longer contains the plugin.                   *)
C8_StorageFailureNotRolledBack ==
    (/\ upc = "returned"
     /\ Len(ulog) = 3
     /\ ulog[3] = LogEntry("StorageRemove", uplugin.PluginDir, "fail")) =>
        /\ IsExternalPlugin(uplugin)
        /\ uret = "ErrStorageRemove"
        /\ uplugin \notin registry
        /\ uplugin.ID \notin RegistryIDs
        /\ uplugin.ID \notin running

C8_Witness ==
    /\ upc = "returned"
    /\ Len(ulog) = 3
    /\ ulog[3] = LogEntry("StorageRemove", uplugin.PluginDir, "fail")
    /\ uplugin.ID \in storage

(* C9: when the Initializer returns an error for the second of three       *)
(* validated plugins of a batch, Load returns that error, the first plugin *)
(* is left registered in the registry, and the third plugin is never       *)
(* initialized, registered or started.                                     *)
SecondOfThreeFailedInit ==
    /\ lpc = "returned"
    /\ Len(verified) = 3
    /\ Logged(llog, "Initialize", verified[1], "ok")
    /\ Logged(llog, "Initialize", verified[2], "fail")

ThirdNeverProcessed ==
    \A op \in {"Initialize"} \cup RegistrationOps : ~Invoked(llog, op, verified[3])

C9_FirstLeftRegistered ==
    SecondOfThreeFailedInit =>
        /\ lret.err = "ErrInitialize"
        /\ RegEntry(loaded[verified[1]]) \in registry
        /\ ThirdNeverProcessed

(* C9, amended: when the Initializer returns an error for the second of    *)
(* three validated plugins of a batch, Load returns that error and no      *)
(* plugin list; no plugin of the batch is added to the registry,           *)
(* registered in storage or started -- the first plugin was initialized    *)
(* but is not registered -- and the third plugin is never initialized.     *)
C9_NoneRegistered ==
    SecondOfThreeFailedInit =>
        /\ lret = [plugins |-> << >>, err |-> "ErrInitialize"]
        /\ \A op \in RegistrationOps : ~InvokedAny(llog, op)
        /\ \A d \in DOMAIN loaded : RegEntry(loaded[d]) \notin registry
        /\ RegistryIDs = lsnap
        /\ ThirdNeverProcessed

C9_Witness == SecondOfThreeFailedInit

(* C10: if the registry Add of any plugin of a batch fails, the Load call  *)
(* returns that error to its caller.                                       *)
C10_AddErrorReturned ==
    (lpc = "returned" /\ \E d \in DOMAIN loaded : Logged(llog, "Add", d, "fail")) =>
        lret.err = "ErrAdd"

(* C11: when the registry Add of a plugin succeeds and the process Start  *)
(* for it fails, the plugin stays in the registry and is not running, Load *)
(* returns no error and still returns the plugin, and every later plugin   *)
(* of the batch is still handed to the registry and, where its own         *)
(* collaborators succeed, registered and started.                          *)
StartFailedAfterAdd(i) ==
    /\ Logged(llog, "Add", verified[i], "ok")
    /\ Logged(llog, "Start", verified[i], "fail")

C11_StartFailureNotFatal ==
    lpc = "returned" =>
        \A i \in DOMAIN verified :
            StartFailedAfterAdd(i) =>
                /\ RegEntry(loaded[verified[i]]) \in registry
                /\ loaded[verified[i]].ID \notin running
                /\ lret.err = "nil"
                /\ InSeq(verified[i], lret.plugins)
                /\ \A j \in (i + 1)..Len(verified) :
                      /\ Invoked(llog, "Add", verified[j])
                      /\ Logged(llog, "Start", verified[j], "ok") =>
                            /\ RegEntry(loaded[verified[j]]) \in registry
                            /\ loaded[verified[j]].ID \in running

\* A batch whose first plugin was added and did not start, and whose
\* second plugin was added and started.
C11_Witness ==
    /\ lpc = "returned"
    /\ Len(verified) >= 2
    /\ StartFailedAfterAdd(1)
    /\ Logged(llog, "Add", verified[2], "ok")
    /\ Logged(llog, "Start", verified[2], "ok")

(* C12: a plugin that passed signature validation and the asset check has  *)
(* its parent's ID as app marker and its parent's base URL when its parent *)
(* is an app, and no marker and its own base URL otherwise; /a (app p1)    *)
(* and /a/b (panel p2) loaded together and both valid give two returned    *)
(* plugins with p2's parent p1 and p2's marker p1.                         *)
C12_AppChildConfigured ==
    /\ \A i \in DOMAIN verified :
          LET d == verified[i]
              p == loaded[d]
          IN  IF p.Parent # NoDir /\ IsApp(loaded[p.Parent])
              THEN /\ p.IncludedInAppID = loaded[p.Parent].ID
                   /\ p.BaseURL = loaded[p.Parent].BaseURL
              ELSE /\ p.IncludedInAppID = ""
                   /\ p.BaseURL = BaseURLOf(p.Class, d)
    /\ (/\ lpc = "returned"
        /\ lret.err = "nil"
        /\ DOMAIN loaded = {DirA, DirB}
        /\ \A d \in DOMAIN loaded : Validate(loaded[d]) = NoErr) =>
            /\ Len(lret.plugins) = 2
            /\ InSeq(DirA, lret.plugins) /\ InSeq(DirB, lret.plugins)
            /\ loaded[loaded[DirB].Parent].ID = "p1"
            /\ loaded[DirB].IncludedInAppID = "p1"

\* The app and its panel were loaded together and returned.
C12_Witness ==
    /\ lpc = "returned"
    /\ DOMAIN loaded = {DirA, DirB}
    /\ Len(lret.plugins) = 2
    /\ loaded[DirB].IncludedInAppID = "p1"
    /\ loaded[DirB].BaseURL = loaded[DirA].BaseURL
    /\ loaded[DirB].BaseURL # BaseURLOf(lclass, DirB)

(* C13: a manifest with an empty ID, an unrecognized type or a path that   *)
(* is not a .json path is skipped by the reader and only such a manifest   *)
(* is: it never enters the batch (no plugin is created for it, no          *)
(* collaborator is called for it, it is not returned), the other manifests *)
(* of the call are processed, and an error Load returns is the error of an *)
(* asset check or of an Initialize the call made, never the reader's.      *)
C13_UnreadableManifestSkipped ==
    lpc # "idle" =>
        /\ \A d \in lskipped :
              /\ ~readPluginJSON(d)
              /\ d \notin lfound
              /\ d \notin DOMAIN loaded
              /\ \A i \in DOMAIN llog : llog[i].dir # d
              /\ ~InSeq(d, lret.plugins)
        /\ \A d \in lfound : readPluginJSON(d)
        /\ (lpc = "returned" /\ lskipped # {}) =>
              \/ lret.err = "nil"
              \/ lret.err = "ErrExists" /\ \E d \in lfound : Logged(llog, "Exists", d, "error")
              \/ lret.err = "ErrInitialize" /\ \E d \in lfound : Logged(llog, "Initialize", d, "fail")

\* Two unreadable manifests were discovered beside a plugin that Load
\* returned.
C13_Witness ==
    /\ lpc = "returned"
    /\ Cardinality(lskipped) = 2
    /\ Len(lret.plugins) = 1
    /\ lret.err = "nil"

(* C16: registry Add is invoked for a plugin only after, in this order,   *)
(* the plugin was classified and wired (it is in the batch map), its       *)
(* signature validation passed, its asset check ran (for the plugins that  *)
(* have one: not renderers, not core plugins) and its Initialize           *)
(* succeeded, all in the same Load call; and the stages are batch-wide: no *)
(* validation follows an Initialize, no Initialize follows an Add.         *)
Stage(op) ==
    CASE op \in {"Validate", "DeleteErr", "Exists"} -> 1
      [] op = "Initialize"                           -> 2
      [] OTHER                                       -> 3

C16_AddAfterValidationAndInit ==
    /\ \A i \in DOMAIN llog :
          llog[i].op = "Add" =>
              LET d == llog[i].dir
              IN  /\ d \in DOMAIN loaded
                  /\ \E j \in 1..(i - 1), k \in 1..(i - 1) :
                        /\ j < k
                        /\ llog[j] = LogEntry("Validate", d, "ok")
                        /\ llog[k] = LogEntry("Initialize", d, "ok")
                        /\ ExistsOutcomes(loaded[d]) # {"skipped"} =>
                              \E m \in (j + 1)..(k - 1) :
                                  llog[m].op = "Exists" /\ llog[m].dir = d
    /\ \A a \in DOMAIN llog, b \in DOMAIN llog :
          a < b => Stage(llog[a].op) <= Stage(llog[b].op)

\* Two plugins with an asset check went through every stage and were added.
C16_Witness ==
    /\ Len(verified) >= 2
    /\ \A i \in 1..2 :
          /\ Logged(llog, "Add", verified[i], "ok")
          /\ Invoked(llog, "Exists", verified[i])

(* C17: when Initialize fails for a plugin of a batch, the Load call       *)
(* invokes nothing after it (no Initialize, registry Add, storage Register *)
(* or process Start), it has made no registration before it either, it     *)
(* returns the error with no plugin list, and the registry holds what it   *)
(* held before the call.                                                   *)
C17_InitFailureStopsLoad ==
    \A i \in DOMAIN llog :
        (llog[i].op = "Initialize" /\ llog[i].res = "fail") =>
            /\ i = Len(llog)
            /\ lpc = "returned"
            /\ lret = [plugins |-> << >>, err |-> "ErrInitialize"]
            /\ \A j \in DOMAIN llog : llog[j].op \notin RegistrationOps
            /\ RegistryIDs = lsnap

\* Initialize failed in a call made while the registry held a plugin.
C17_Witness ==
    /\ lsnap # {}
    /\ Len(verified) >= 2
    /\ \E d \in DOMAIN loaded : Logged(llog, "Initialize", d, "fail")

(* C18: the asset check is not fatal: whatever fs.Exists gives for a       *)
(* validated plugin (present, missing, or an error of the check itself),   *)
(* the plugin goes on to initialization and the Load call is not aborted.  *)
C18_AssetCheckNonFatal ==
    lpc = "returned" =>
        \A d \in DOMAIN loaded :
            Invoked(llog, "Exists", d) =>
                /\ InSeq(d, verified)
                /\ lret.err # "ErrExists"

(* C20: a Load call never destroys a plugin: no step of Load removes a     *)
(* plugin from the registry, stops a process or removes a storage entry,   *)
(* Load invokes neither Stop, registry Remove nor storage Remove, every    *)
(* plugin registered when the call read the registry is registered while   *)
(* the call runs and when it returns, and a plugin leaves the registry     *)
(* only in the registry Remove step of an Unload of its ID.                *)
DestroyOps == {"Stop", "Remove", "StorageRemove"}

C20_LoadNeverDestroys ==
    [][/\ lvars' # lvars =>
            /\ registry \subseteq registry'
            /\ running \subseteq running'
            /\ storage \subseteq storage'
            /\ \A i \in DOMAIN llog' : llog'[i].op \notin DestroyOps
            /\ lpc' # "idle" => lsnap' \subseteq RegistryIDs'
       /\ \A p \in registry \ registry' : upc = "remove" /\ p.ID = uid]_vars

\* A Load call made on a non-empty registry returned after one of its
\* plugins was added and a collaborator failed.
C20_Witness ==
    /\ lpc = "returned"
    /\ lsnap # {}
    /\ \E i \in DOMAIN llog : llog[i].op = "Add" /\ llog[i].res = "ok"
    /\ \E i \in DOMAIN llog : llog[i].op = "Start" /\ llog[i].res = "fail"

(* C14: the error map is never accessed by two callers at once: no write  *)
(* of the map by a Load batch (the insert of a rejected plugin, the delete *)
(* of a validated one) falls within a PluginErrors call's iteration over   *)
(* the map.                                                                *)
C14_ErrsMutualExclusion == epc \notin {"raced", "fatal"}

(* C15: once a Load call that registered an external plugin X and an      *)
(* Unload(X) call that ran concurrently with it have both returned, X's    *)
(* process is running only if X is in the registry and X has a storage     *)
(* entry only if X is in the registry -- here for the calls in which every *)
(* collaborator succeeded.                                                 *)
NoFailureLogged(log) == \A i \in DOMAIN log : log[i].res \notin {"fail", "error"}

C15_ConcurrentLoadUnloadConsistent ==
    (/\ lpc = "returned" /\ upc = "returned"
     /\ lclass = "external"
     /\ uret = "nil"
     /\ NoFailureLogged(llog) /\ NoFailureLogged(ulog)
     /\ \E d \in DOMAIN loaded : loaded[d].ID = uid /\ Logged(llog, "Add", d, "ok")) =>
        /\ uid \in running => uid \in RegistryIDs
        /\ uid \in storage => uid \in RegistryIDs

(* C19: setDefaultNavURL takes the default navigation URL from the first  *)
(* include, in list order, that has defaultNav set: a page include gives   *)
(* its page URL, a dashboard include with a UID its dashboard URL, a       *)
(* dashboard include without a UID leaves the URL unset; the includes      *)
(* after that first one never change the result.                           *)
NavReturned == navi = Len(navIncludes) + 1

FirstDefaultNav ==
    CHOOSE i \in DOMAIN navIncludes :
        /\ navIncludes[i].DefaultNav
        /\ \A j \in 1..(i - 1) : ~navIncludes[j].DefaultNav

C19_FirstDefaultNavWins ==
    (NavReturned /\ \E i \in DOMAIN navIncludes : navIncludes[i].DefaultNav) =>
        LET include == navIncludes[FirstDefaultNav]
        IN  /\ include.Type = "page" =>
                  navURL = PageURL(NavPluginID, include.Slug)
            /\ (include.Type = "dashboard" /\ include.UID # "") =>
                  navURL = <<"d", include.UID>>
            /\ (include.Type = "dashboard" /\ include.UID = "") =>
                  navURL = << >>

(* C21: once the wiring of a batch is over, the parent/child relation is *)
(* a consistent forest: each plugin has at most one parent, and that       *)
(* parent is a plugin of the same batch; a plugin is in a parent's         *)
(* children exactly when its parent is that plugin, and then exactly once; *)
(* no plugin is its own ancestor.                                          *)
RECURSIVE ParentChain(_, _, _)
ParentChain(L, d, n) ==
    IF n = 0 \/ L[d].Parent \notin DOMAIN L THEN {}
    ELSE {L[d].Parent} \cup ParentChain(L, L[d].Parent, n - 1)

C21_ConsistentForest ==
    lpc = "wired" =>
        /\ \A c \in DOMAIN loaded :
              loaded[c].Parent \in DOMAIN loaded \cup {NoDir}
        /\ \A p \in DOMAIN loaded : \A c \in DOMAIN loaded :
              CopiesIn(c, loaded[p].Children) =
                  IF loaded[c].Parent = p THEN 1 ELSE 0
        /\ \A c \in DOMAIN loaded :
              c \notin ParentChain(loaded, c, Cardinality(DOMAIN loaded))

(* C22: when Load returns no error, every plugin in the returned list was  *)
(* added to the registry by that call: its Add succeeded and the registry  *)
(* holds that plugin under its ID.                                         *)
C22_ReturnedWereAdded ==
    (lpc = "returned" /\ lret.err = "nil") =>
        \A d \in DOMAIN loaded :
            InSeq(d, lret.plugins) =>
                /\ Logged(llog, "Add", d, "ok")
                /\ RegEntry(loaded[d]) \in registry

(* C23: the list Load returns never holds two plugins with the same ID,    *)
(* also when two directories of the batch hold a manifest with the same    *)
(* ID: at most one of them is processed further and returned.              *)
C23_ReturnedIDsDistinct ==
    lpc = "returned" =>
        \A i \in DOMAIN lret.plugins : \A j \in DOMAIN lret.plugins :
            i # j => loaded[lret.plugins[i]].ID # loaded[lret.plugins[j]].ID

(* C24: a returned plugin that has a parent has a parent that passed       *)
(* validation in the same batch and is returned too; no plugin is returned *)
(* or registered with a reference to a rejected parent; the children of a  *)
(* returned parent hold no rejected plugin.                                *)
Rejected(d) == Logged(llog, "Validate", d, "fail")

C24_NoRejectedRelatives ==
    lpc = "returned" =>
        /\ \A d \in DOMAIN loaded :
              (InSeq(d, lret.plugins) /\ loaded[d].Parent # NoDir) =>
                  /\ Logged(llog, "Validate", loaded[d].Parent, "ok")
                  /\ InSeq(loaded[d].Parent, lret.plugins)
        /\ \A d \in DOMAIN loaded :
              (InSeq(d, lret.plugins) \/ Logged(llog, "Add", d, "ok")) =>
                  (loaded[d].Parent # NoDir => ~Rejected(loaded[d].Parent))
        /\ \A p \in DOMAIN loaded :
              InSeq(p, lret.plugins) =>
                  \A c \in BagToSet(loaded[p].Children) : ~Rejected(c)

(* C25: within a Load call the process Start of a plugin is invoked only   *)
(* after the registry Add of that plugin succeeded and, for an external    *)
(* plugin, after its storage Register succeeded; Register is invoked only  *)
(* for external plugins, after their Add succeeded; when Register fails    *)
(* the plugin stays in the registry, is not started, and Load still        *)
(* returns it with no error.                                               *)
LoggedBefore(i, op, d, res) ==
    \E j \in 1..(i - 1) : llog[j] = LogEntry(op, d, res)

C25_StartAfterAddAndRegister ==
    /\ \A i \in DOMAIN llog :
          llog[i].op = "Start" =>
              /\ LoggedBefore(i, "Add", llog[i].dir, "ok")
              /\ IsExternalPlugin(loaded[llog[i].dir]) =>
                     LoggedBefore(i, "Register", llog[i].dir, "ok")
    /\ \A i \in DOMAIN llog :
          llog[i].op = "Register" =>
              /\ IsExternalPlugin(loaded[llog[i].dir])
              /\ LoggedBefore(i, "Add", llog[i].dir, "ok")
    /\ lpc = "returned" =>
          \A d \in DOMAIN loaded :
              Logged(llog, "Register", d, "fail") =>
                  /\ RegEntry(loaded[d]) \in registry
                  /\ ~Invoked(llog, "Start", d)
                  /\ loaded[d].ID \notin running
                  /\ InSeq(d, lret.plugins)
                  /\ lret.err = "nil"

\* A Load of two external plugins returned: the storage Register of one
\* failed, the other was registered with the storage and then started.
C25_Witness ==
    /\ lpc = "returned"
    /\ lret.err = "nil"
    /\ \E d \in DOMAIN loaded : \E e \in DOMAIN loaded :
        /\ d # e
        /\ IsExternalPlugin(loaded[d])
        /\ Logged(llog, "Add", d, "ok")
        /\ Logged(llog, "Register", d, "fail")
        /\ InSeq(d, lret.plugins)
        /\ Logged(llog, "Register", e, "ok")
        /\ Logged(llog, "Start", e, "ok")

============================================================================
